---- MODULE Spec2Model ----
(***************************************************************************)
(* Model of the ESP32 MQTT temperature firmware (src/src/main.rs).         *)
(*                                                                         *)
(* Two threads: the MQTT event thread spawned in handle_mqtt (lines        *)
(* 154-175), which forwards received payloads over an mpsc channel, and    *)
(* the main thread, which subscribes and then runs the command loop        *)
(* (lines 181-199) and handle_measure (lines 202-230).                     *)
(*                                                                         *)
(* Text is modelled as the sequence of its bytes (a Rust &str is its       *)
(* UTF-8 bytes), so split, from_utf8 and parse::<u64> are computed on      *)
(* bytes as the library computes them.                                     *)
(***************************************************************************)
EXTENDS Integers, Sequences, FiniteSets, TLC

\* ------------------------------------------------------------------ bounds

\* Number of events the event stream delivers before it is only able to close.
MaxEvents == 3

\* Largest raw reading considered for the conversion (a 12-bit range).
RawMax == 4095

\* ------------------------------------------------------------- byte values

COLON == 58
COMMA == 44
PLUS == 43
DIGIT_0 == 48
DIGIT_9 == 57

\* "measure"
MEASURE == <<109, 101, 97, 115, 117, 114, 101>>

\* Decimal digits of u64::MAX = 18446744073709551615
U64_MAX_DIGITS == <<1, 8, 4, 4, 6, 7, 4, 4, 0, 7, 3, 7, 0, 9, 5, 5, 1, 6, 1, 5>>

\* ---------------------------------------------------------------- payloads

\* "measure:2,1"
P_Measure2 == <<109, 101, 97, 115, 117, 114, 101, 58, 50, 44, 49>>
\* "measure:0,5"
P_Measure0 == <<109, 101, 97, 115, 117, 114, 101, 58, 48, 44, 53>>
\* "foo:bar"
P_FooBar == <<102, 111, 111, 58, 98, 97, 114>>
\* "measure"
P_NoArgs == <<109, 101, 97, 115, 117, 114, 101>>
\* "measure:5"
P_OneArg == <<109, 101, 97, 115, 117, 114, 101, 58, 53>>
\* "measure:1,2,3"
P_ThreeArgs == <<109, 101, 97, 115, 117, 114, 101, 58, 49, 44, 50, 44, 51>>
\* the empty payload
P_Empty == <<>>
\* 0xC3 0x28: a two-byte lead followed by a non-continuation byte
P_BadUtf8 == <<195, 40>>

\* Payloads the broker may deliver in a Received event.
Payloads ==
    { P_Measure2, P_Measure0, P_FooBar, P_NoArgs, P_OneArg, P_ThreeArgs,
      P_Empty, P_BadUtf8 }

\* "measure:abc,10"
P_BadAmount == <<109, 101, 97, 115, 117, 114, 101, 58, 97, 98, 99, 44, 49, 48>>
\* "measure:2,x"
P_BadDelay == <<109, 101, 97, 115, 117, 114, 101, 58, 50, 44, 120>>
\* "measure:abc,x"
P_BadBoth == <<109, 101, 97, 115, 117, 114, 101, 58, 97, 98, 99, 44, 120>>
\* "measure:,5"
P_EmptyAmount == <<109, 101, 97, 115, 117, 114, 101, 58, 44, 53>>
\* "measure:-1,5"
P_Negative == <<109, 101, 97, 115, 117, 114, 101, 58, 45, 49, 44, 53>>
\* "measure:+2,1"
P_Plus == <<109, 101, 97, 115, 117, 114, 101, 58, 43, 50, 44, 49>>
\* "measure:18446744073709551616,1"
P_Overflow == <<109, 101, 97, 115, 117, 114, 101, 58, 49, 56, 52, 52, 54, 55, 52, 52, 48, 55, 51, 55, 48, 57, 53, 53, 49, 54, 49, 54, 44, 49>>
\* "measure:2,0"
P_Measure20 == <<109, 101, 97, 115, 117, 114, 101, 58, 50, 44, 48>>
\* "measure:2,0:junk"
P_Trailing == <<109, 101, 97, 115, 117, 114, 101, 58, 50, 44, 48, 58, 106, 117, 110, 107>>
\* "measure:2:0"
P_TrailingBad == <<109, 101, 97, 115, 117, 114, 101, 58, 50, 58, 48>>

\* Further strings the command loop may be handed, beside the payloads above:
\* ill-formed numbers, and text after a second colon.
ParserInputs ==
    { P_BadAmount, P_BadDelay, P_BadBoth, P_EmptyAmount, P_Negative, P_Plus,
      P_Overflow, P_Measure20, P_Trailing, P_TrailingBad }

\* Raw ADC readings the sensor may return: the two calibration readings.
RawReadings == {1558, 2100}

\* The readings over which the conversion is checked.
AdcReadings == 0..RawMax

\* ------------------------------------------------------- library functions

IsCont(b) == b >= 128 /\ b <= 191

\* std::str::from_utf8(data).is_ok(): the well-formed UTF-8 byte sequences.
RECURSIVE ValidUtf8(_)
ValidUtf8(b) ==
    IF b = <<>> THEN TRUE
    ELSE LET n == Len(b)
             b1 == b[1]
             rest(k) == SubSeq(b, k + 1, n)
         IN  IF b1 <= 127 THEN ValidUtf8(rest(1))
             ELSE IF b1 >= 194 /\ b1 <= 223
                  THEN n >= 2 /\ IsCont(b[2]) /\ ValidUtf8(rest(2))
             ELSE IF b1 >= 224 /\ b1 <= 239
                  THEN /\ n >= 3
                       /\ IsCont(b[2])
                       /\ IsCont(b[3])
                       /\ (b1 = 224 => b[2] >= 160)
                       /\ (b1 = 237 => b[2] <= 159)
                       /\ ValidUtf8(rest(3))
             ELSE IF b1 >= 240 /\ b1 <= 244
                  THEN /\ n >= 4
                       /\ IsCont(b[2])
                       /\ IsCont(b[3])
                       /\ IsCont(b[4])
                       /\ (b1 = 240 => b[2] >= 144)
                       /\ (b1 = 244 => b[2] <= 143)
                       /\ ValidUtf8(rest(4))
             ELSE FALSE

\* str::split(sep).collect::<Vec<&str>>() for a one-byte separator: the
\* segments between separators; the empty string yields one empty segment.
RECURSIVE Split(_, _)
Split(s, sep) ==
    IF \A k \in 1..Len(s) : s[k] # sep
    THEN <<s>>
    ELSE LET k == CHOOSE k \in 1..Len(s) :
                      s[k] = sep /\ \A j \in 1..(k - 1) : s[j] # sep
         IN  <<SubSeq(s, 1, k - 1)>> \o Split(SubSeq(s, k + 1, Len(s)), sep)

IsDigit(b) == b >= DIGIT_0 /\ b <= DIGIT_9

RECURSIVE StripZeros(_)
StripZeros(d) ==
    IF d # <<>> /\ d[1] = 0 THEN StripZeros(Tail(d)) ELSE d

\* d <= e for two digit sequences without leading zeros.
RECURSIVE DigitsLeq(_, _)
DigitsLeq(d, e) ==
    IF Len(d) # Len(e) THEN Len(d) < Len(e)
    ELSE IF d = <<>> THEN TRUE
    ELSE IF d[1] # e[1] THEN d[1] < e[1]
    ELSE DigitsLeq(Tail(d), Tail(e))

RECURSIVE DigitsValue(_)
DigitsValue(d) ==
    IF d = <<>> THEN 0 ELSE 10 * DigitsValue(SubSeq(d, 1, Len(d) - 1)) + d[Len(d)]

\* The digits of s after an optional leading '+', as numbers.
U64Digits(s) ==
    LET body == IF s # <<>> /\ s[1] = PLUS THEN Tail(s) ELSE s
    IN  [k \in 1..Len(body) |-> body[k] - DIGIT_0]

\* str::parse::<u64>().is_ok(): an optional leading '+', then one or more
\* ASCII digits, the value at most u64::MAX.
ParseU64Ok(s) ==
    LET d == U64Digits(s)
    IN  /\ d # <<>>
        /\ \A k \in 1..Len(d) : IsDigit(d[k] + DIGIT_0)
        /\ DigitsLeq(StripZeros(d), U64_MAX_DIGITS)

\* The value str::parse::<u64>() returns when it is Ok (evaluated only for
\* values the model checker's integers can hold).
ParseU64Val(s) == DigitsValue(StripZeros(U64Digits(s)))

\* ----------------------------------------------------------- command parser

\* Mutant of parse_measure_args: the delay field is checked before the amount.
parse_measure_args_DelayFirst(arg_string) ==
    LET args == Split(arg_string, COMMA)
    IN  IF Len(args) # 2
        THEN [kind |-> "WrongArgCount", n |-> Len(args), amount |-> 0, delay |-> 0]
        ELSE IF ~ParseU64Ok(args[2])
        THEN [kind |-> "NotANumber", n |-> 2, amount |-> 0, delay |-> 0]
        ELSE IF ~ParseU64Ok(args[1])
        THEN [kind |-> "NotANumber", n |-> 1, amount |-> 0, delay |-> 0]
        ELSE [kind |-> "Measure", n |-> 0,
              amount |-> ParseU64Val(args[1]), delay |-> ParseU64Val(args[2])]

\* Mutant of parse_measure_args: only too few fields are rejected.
parse_measure_args_AtLeastTwo(arg_string) ==
    LET args == Split(arg_string, COMMA)
    IN  IF Len(args) < 2
        THEN [kind |-> "WrongArgCount", n |-> Len(args), amount |-> 0, delay |-> 0]
        ELSE IF ~ParseU64Ok(args[1])
        THEN [kind |-> "NotANumber", n |-> 1, amount |-> 0, delay |-> 0]
        ELSE IF ~ParseU64Ok(args[2])
        THEN [kind |-> "NotANumber", n |-> 2, amount |-> 0, delay |-> 0]
        ELSE [kind |-> "Measure", n |-> 0,
              amount |-> ParseU64Val(args[1]), delay |-> ParseU64Val(args[2])]

\* parse_measure_args (lines 232-253): the two comma-separated u64 fields of
\* the args segment, or the error that is logged before None is returned.
\* n is the field count for WrongArgCount and the failing field (1 = amount,
\* 2 = delay) for NotANumber.
parse_measure_args(arg_string) ==
    LET args == Split(arg_string, COMMA)
    IN  IF Len(args) # 2
        THEN [kind |-> "WrongArgCount", n |-> Len(args), amount |-> 0, delay |-> 0]
        ELSE IF ~ParseU64Ok(args[1])
        THEN [kind |-> "NotANumber", n |-> 1, amount |-> 0, delay |-> 0]
        ELSE IF ~ParseU64Ok(args[2])
        THEN [kind |-> "NotANumber", n |-> 2, amount |-> 0, delay |-> 0]
        ELSE [kind |-> "Measure", n |-> 0,
              amount |-> ParseU64Val(args[1]), delay |-> ParseU64Val(args[2])]

\* Mutant of ParseCommand: the unknown verb reported is the whole message.
ParseCommand_WholeVerb(x) ==
    LET command_arr == Split(x, COLON)
        none == [n |-> 0, amount |-> 0, delay |-> 0, verb |-> <<>>]
    IN  IF command_arr = <<>>
        THEN none @@ [kind |-> "InvalidCommandString"]
        ELSE IF command_arr[1] # MEASURE
        THEN [none EXCEPT !.verb = x] @@ [kind |-> "Unknown"]
        ELSE IF Len(command_arr) < 2
        THEN [none EXCEPT !.verb = MEASURE] @@ [kind |-> "MissingArgs"]
        ELSE parse_measure_args(command_arr[2]) @@ [verb |-> MEASURE]

\* Mutant of ParseCommand: text after a second colon makes the command
\* unknown.
ParseCommand_RejectTrailing(x) ==
    LET command_arr == Split(x, COLON)
        none == [n |-> 0, amount |-> 0, delay |-> 0, verb |-> <<>>]
    IN  IF command_arr = <<>>
        THEN none @@ [kind |-> "InvalidCommandString"]
        ELSE IF command_arr[1] # MEASURE \/ Len(command_arr) > 2
        THEN [none EXCEPT !.verb = command_arr[1]] @@ [kind |-> "Unknown"]
        ELSE IF Len(command_arr) < 2
        THEN [none EXCEPT !.verb = MEASURE] @@ [kind |-> "MissingArgs"]
        ELSE parse_measure_args(command_arr[2]) @@ [verb |-> MEASURE]

\* The classification the command loop makes of one message (lines 189-198)
\* together with the argument checks at the head of handle_measure (lines
\* 209-216): a Measure, an unknown verb, or the error that is logged.
ParseCommand(x) ==
    LET command_arr == Split(x, COLON)
        none == [n |-> 0, amount |-> 0, delay |-> 0, verb |-> <<>>]
    IN  IF command_arr = <<>>
        THEN none @@ [kind |-> "InvalidCommandString"]
        ELSE IF command_arr[1] # MEASURE
        THEN [none EXCEPT !.verb = command_arr[1]] @@ [kind |-> "Unknown"]
        ELSE IF Len(command_arr) < 2
        THEN [none EXCEPT !.verb = MEASURE] @@ [kind |-> "MissingArgs"]
        ELSE parse_measure_args(command_arr[2]) @@ [verb |-> MEASURE]

\* -------------------------------------------------- temperature conversion

\* An f32 value is s * m * 2^e with s the sign (1 or -1) and m either 0 or a
\* 24-bit significand, 2^23 <= m < 2^24 (IEEE 754 binary32; the values of
\* calc_temp are far from its subnormal and overflow ranges).
F32_SIGNIFICAND_BITS == 24
F32Zero(s) == [s |-> s, m |-> 0, e |-> 0]

RECURSIVE NormUp(_, _)
NormUp(m, e) ==
    IF m >= 2^(F32_SIGNIFICAND_BITS - 1) THEN [m |-> m, e |-> e]
    ELSE NormUp(2 * m, e - 1)

\* The f32 of an integer literal or of `x as f32` for an integer below 2^24
\* in magnitude: exact.
F32(n) ==
    IF n = 0 THEN F32Zero(1)
    ELSE LET r == NormUp(IF n < 0 THEN -n ELSE n, 0)
         IN  [s |-> IF n < 0 THEN -1 ELSE 1, m |-> r.m, e |-> r.e]

\* x has an integer value (below 2^24 in magnitude), and that value.
IsIntegral(x) ==
    x.m = 0 \/ (x.e <= 0 /\ x.e > -F32_SIGNIFICAND_BITS /\ x.m % 2^(-x.e) = 0)
IntOf(x) == IF x.m = 0 THEN 0 ELSE x.s * (x.m \div 2^(-x.e))

\* f32 subtraction of two integer values whose difference is below 2^24:
\* exact.
F32Sub(x, y) ==
    CASE IsIntegral(x) /\ IsIntegral(y) -> F32(IntOf(x) - IntOf(y))

\* f32 addition where an operand is zero (x + 0.0 is x, and -0.0 + 0.0 is
\* +0.0), or of two integer values: exact.
F32Add(x, y) ==
    CASE x.m = 0 /\ y.m = 0 -> F32Zero(IF x.s = -1 /\ y.s = -1 THEN -1 ELSE 1)
      [] x.m # 0 /\ y.m = 0 -> x
      [] x.m = 0 /\ y.m # 0 -> y
      [] x.m # 0 /\ y.m # 0 /\ IsIntegral(x) /\ IsIntegral(y) ->
            F32(IntOf(x) + IntOf(y))

\* k further quotient bits of rem / d by long division.
RECURSIVE DivBits(_, _, _, _)
DivBits(q, rem, d, k) ==
    IF k = 0 THEN [q |-> q, rem |-> rem]
    ELSE IF 2 * rem >= d
    THEN DivBits(2 * q + 1, 2 * rem - d, d, k - 1)
    ELSE DivBits(2 * q, 2 * rem, d, k - 1)

\* f32 division by a non-zero value: the quotient of the significands to 24
\* bits, rounded to nearest, ties to even.
F32Div(x, y) ==
    IF x.m = 0 THEN F32Zero(x.s * y.s)
    ELSE LET lt == x.m < y.m
             n0 == IF lt THEN 2 * x.m ELSE x.m
             e0 == x.e - y.e - (F32_SIGNIFICAND_BITS - 1) - (IF lt THEN 1 ELSE 0)
             d  == DivBits(1, n0 - y.m, y.m, F32_SIGNIFICAND_BITS - 1)
             up == \/ 2 * d.rem > y.m
                   \/ (2 * d.rem = y.m /\ d.q % 2 = 1)
             q1 == IF up THEN d.q + 1 ELSE d.q
         IN  IF q1 = 2^F32_SIGNIFICAND_BITS
             THEN [s |-> x.s * y.s, m |-> 2^(F32_SIGNIFICAND_BITS - 1), e |-> e0 + 1]
             ELSE [s |-> x.s * y.s, m |-> q1, e |-> e0]

\* Lines 34-37.
T_1 == F32(0)
T_2 == F32(50)
V_1 == F32(2100)
V_2 == F32(1558)

\* Line 39.
V_T == F32Div(F32Sub(V_2, V_1), F32Sub(T_2, T_1))

\* Mutant of calc_temp: the two reference voltages are exchanged.
calc_temp_Swapped(voltage) ==
    F32Add(F32Div(F32Sub(voltage, V_2), V_T), T_1)

\* Lines 41-43.
calc_temp(voltage) ==
    F32Add(F32Div(F32Sub(voltage, V_1), V_T), T_1)

\* x < y
F32Less(x, y) ==
    LET sx == IF x.m = 0 THEN 0 ELSE x.s
        sy == IF y.m = 0 THEN 0 ELSE y.s
        magLess(a, b) == a.e < b.e \/ (a.e = b.e /\ a.m < b.m)
    IN  \/ sx < sy
        \/ sx = 1 /\ sy = 1 /\ magLess(x, y)
        \/ sx = -1 /\ sy = -1 /\ magLess(y, x)

\* The value in hundredths as `{:.2}` prints it (line 222): the exact value
\* rounded to two decimals, ties to even.
Hundredths(x) ==
    IF x.m = 0 THEN 0
    ELSE CASE x.e < 0 /\ x.e >= -30 ->
              LET p == x.m * 100
                  w == 2^(-x.e)
                  q == p \div w
                  r == p % w
                  up == 2 * r > w \/ (2 * r = w /\ q % 2 = 1)
              IN  x.s * (IF up THEN q + 1 ELSE q)

\* Every String value the command loop is run on: a String is well-formed
\* UTF-8 by construction, and an empty payload is never sent (line 165).
Messages == {x \in Payloads \cup ParserInputs : x # <<>> /\ ValidUtf8(x)}

\* ------------------------------------------------------------------- state

VARIABLES
    main_pc,        \* position of the main thread
    ing_pc,         \* position of the MQTT event thread
    nevents,        \* events mqtt_conn.next() has delivered so far
    queue,          \* the mpsc channel's content (tx -> rx)
    pushed,         \* every message sent on tx, in order
    popped,         \* every message received from rx, in order
    i,              \* the counter of the current (0..amount).rev() iteration
    delay,          \* delay of the Measure in flight
    raw,            \* the sensor reading of the current iteration
    trace,          \* what the main thread has done: sleeps, sensor reads,
                    \* publishes and error logs, in order
    temp,           \* calc_temp of the reading of the current iteration
    client_users    \* the threads that have begun an operation on mqtt_client
                    \* (subscribe, publish) that has not returned yet; for
                    \* the main thread this is counted from the step before
                    \* the call, so the interval covers the whole call

vars == <<main_pc, ing_pc, nevents, queue, pushed, popped,
          i, delay, raw, trace, temp, client_users>>

\* One entry of the main thread's trace, for the cmd-th message popped.
Entry(op, cmd, n, verb) == [op |-> op, cmd |-> cmd, n |-> n, verb |-> verb]

\* The process has stopped: the main thread returned, or its panic has ended
\* the process (at once by abort, or when its unwinding is over), or a panic
\* on the event thread aborted the process.
Halted ==
    \/ main_pc \in {"panicked", "returned"}
    \/ ing_pc = "aborted"

\* What a panic on the main thread leads to. When panics abort, or when no
\* event thread is left to run, the process is over at once; when panics
\* unwind, the main thread's stack is unwound first (rx is dropped, the
\* client's destructor runs) while the event thread is still running, and
\* the process exits afterwards. The build's panic strategy is not fixed by
\* the sources.
MainPanic ==
    IF ing_pc = "running" THEN {"panicked", "unwinding"} ELSE {"panicked"}

\* The main thread has panicked.
MainPanicked == main_pc \in {"panicked", "unwinding"}

\* The sending half of the channel has been dropped: the event thread's
\* closure has returned or unwound.
TxDropped == ing_pc \in {"exited", "unwound"}

Init ==
    /\ main_pc = "take"
    /\ ing_pc = "unspawned"
    /\ nevents = 0
    /\ queue = <<>>
    /\ pushed = <<>>
    /\ popped = <<>>
    /\ i = 0
    /\ delay = 0
    /\ raw = 0
    /\ trace = <<>>
    /\ temp = F32Zero(1)
    /\ client_users = {}

\* The command loop of handle_mqtt (lines 188-199) about to receive the one
\* string x that is on the channel, for every x in Messages: the state in
\* which its classification of x and handle_measure are applied to x.
InitParse ==
    \E x \in Messages :
        /\ main_pc = "recv"
        /\ ing_pc = "running"
        /\ nevents = 1
        /\ queue = <<x>>
        /\ pushed = <<x>>
        /\ popped = <<>>
        /\ i = 0
        /\ delay = 0
        /\ raw = 0
        /\ trace = <<Entry("subscribe", 0, 0, <<>>)>>
        /\ temp = F32Zero(1)
        /\ client_users = {}

\* ------------------------------------------------------------ main: startup

\* main, lines 60-62: Peripherals, EspSystemEventLoop and EspDefaultNvsPartition
\* are taken; each take().unwrap() panics on an Err, before anything is set up
\* or logged.
TakeResources ==
    /\ main_pc = "take"
    /\ \E ok \in BOOLEAN : main_pc' = IF ok THEN "setup_adc" ELSE "panicked"
    /\ UNCHANGED <<ing_pc, nevents, queue, pushed, popped, i, delay, raw, trace,
                   client_users, temp>>

\* main, lines 65-72: setup_adc succeeds, or its error is logged and main returns.
SetupAdc ==
    /\ main_pc = "setup_adc"
    /\ \E ok \in BOOLEAN :
          IF ok
          THEN main_pc' = "setup_wifi" /\ trace' = trace
          ELSE /\ main_pc' = "returned"
               /\ trace' = Append(trace, Entry("SetupError", 0, 1, <<>>))
    /\ UNCHANGED <<ing_pc, nevents, queue, pushed, popped, i, delay, raw,
                 client_users, temp>>

\* main, lines 75-81, and setup_wifi, lines 107-129: the connection comes up,
\* or an EspError is returned and logged, or one of setup_wifi's unwraps panics.
SetupWifi ==
    /\ main_pc = "setup_wifi"
    /\ \E r \in {"ok", "err", "panic"} :
          CASE r = "ok" -> main_pc' = "setup_mqtt" /\ trace' = trace
            [] r = "err" -> /\ main_pc' = "returned"
                            /\ trace' = Append(trace, Entry("SetupError", 0, 2, <<>>))
            [] r = "panic" -> main_pc' = "panicked" /\ trace' = trace
    /\ UNCHANGED <<ing_pc, nevents, queue, pushed, popped, i, delay, raw,
                 client_users, temp>>

\* Mutant of SetupMqtt: the error is logged but main does not return.
SetupMqtt_NoReturn ==
    /\ main_pc = "setup_mqtt"
    /\ \E ok \in BOOLEAN :
          /\ main_pc' = "spawn"
          /\ trace' = IF ok THEN trace
                      ELSE Append(trace, Entry("SetupError", 0, 3, <<>>))
    /\ UNCHANGED <<ing_pc, nevents, queue, pushed, popped, i, delay, raw,
                 client_users, temp>>

\* main, lines 84-90: setup_mqtt succeeds, or its error is logged and main returns.
SetupMqtt ==
    /\ main_pc = "setup_mqtt"
    /\ \E ok \in BOOLEAN :
          IF ok
          THEN main_pc' = "spawn" /\ trace' = trace
          ELSE /\ main_pc' = "returned"
               /\ trace' = Append(trace, Entry("SetupError", 0, 3, <<>>))
    /\ UNCHANGED <<ing_pc, nevents, queue, pushed, popped, i, delay, raw,
                 client_users, temp>>

\* handle_mqtt, lines 151-175: the channel is created and the event thread started.
Spawn ==
    /\ main_pc = "spawn"
    /\ \E ok \in BOOLEAN :
          IF ok
          THEN /\ main_pc' = "subscribe"
               /\ ing_pc' = "running"
               /\ client_users' = {"main"}
          ELSE /\ main_pc' = "panicked"
               /\ UNCHANGED <<ing_pc, client_users>>
    /\ UNCHANGED <<nevents, queue, pushed, popped, i, delay, raw, trace, temp>>

\* handle_mqtt, line 181: subscribe(...).unwrap().
Subscribe ==
    /\ main_pc = "subscribe"
    /\ ~Halted
    /\ \E ok \in BOOLEAN :
          /\ IF ok THEN main_pc' = "recv" ELSE main_pc' \in MainPanic
          /\ trace' = IF ok THEN Append(trace, Entry("subscribe", 0, 0, <<>>)) ELSE trace
    /\ UNCHANGED <<ing_pc, nevents, queue, pushed, popped, i, delay, raw, temp>>
    /\ client_users' = {}

\* ------------------------------------------------------------ event thread

LoggedOnlyKinds == {"Connected", "Subscribed", "Published", "Other"}

\* Mutant of IngestLogged: the event thread acknowledges a Subscribed event
\* through the client handle.
IngestLogged_UsesClient(kind) ==
    /\ ing_pc = "running"
    /\ ~Halted
    /\ nevents < MaxEvents
    /\ kind \in LoggedOnlyKinds
    /\ nevents' = nevents + 1
    /\ client_users' = IF kind = "Subscribed" THEN client_users \cup {"ing"}
                       ELSE client_users
    /\ UNCHANGED <<main_pc, ing_pc, queue, pushed, popped,
                   i, delay, raw, trace, temp>>

\* Mutant of IngestLogged: a Published acknowledgement is forwarded to the
\* command queue like a data event.
IngestLogged_Forwarded(kind) ==
    /\ ing_pc = "running"
    /\ ~Halted
    /\ nevents < MaxEvents
    /\ kind \in LoggedOnlyKinds
    /\ nevents' = nevents + 1
    /\ IF kind = "Published"
       THEN queue' = Append(queue, P_FooBar) /\ pushed' = Append(pushed, P_FooBar)
       ELSE UNCHANGED <<queue, pushed>>
    /\ UNCHANGED <<main_pc, ing_pc, popped, i, delay, raw, trace,
                 client_users, temp>>

\* Lines 158-160 and 171: Connected, Subscribed, Published and any other event
\* kind are logged and nothing else.
IngestLogged(kind) ==
    /\ ing_pc = "running"
    /\ ~Halted
    /\ nevents < MaxEvents
    /\ kind \in LoggedOnlyKinds
    /\ nevents' = nevents + 1
    /\ UNCHANGED <<main_pc, ing_pc, queue, pushed, popped,
                   i, delay, raw, trace, client_users, temp>>

\* What the panic of from_utf8(data).unwrap() (line 166) leads to: the process
\* aborts, or the event thread unwinds; a main thread that is unwinding shows
\* that panics unwind.
DecodePanic ==
    IF main_pc = "unwinding" THEN {"unwound"} ELSE {"aborted", "unwound"}

\* Mutant of IngestReceived: the message is put at the front of the queue.
IngestReceived_Front(data) ==
    /\ ing_pc = "running"
    /\ ~Halted
    /\ nevents < MaxEvents
    /\ nevents' = nevents + 1
    /\ IF data = <<>>
       THEN UNCHANGED <<ing_pc, queue, pushed>>
       ELSE IF ~ValidUtf8(data)
       THEN ing_pc' \in DecodePanic /\ UNCHANGED <<queue, pushed>>
       ELSE IF main_pc = "unwinding"
       THEN ing_pc' = "unwound" /\ UNCHANGED <<queue, pushed>>
       ELSE /\ queue' = <<data>> \o queue
            /\ pushed' = Append(pushed, data)
            /\ ing_pc' = ing_pc
    /\ UNCHANGED <<main_pc, popped, i, delay, raw, trace, client_users, temp>>

\* Lines 164-170: a Received event. An empty payload is skipped; otherwise
\* from_utf8(data).unwrap() panics on an ill-formed payload, and a well-formed
\* one is sent on the channel. What a panic on a spawned thread does depends
\* on the build's panic strategy, which the sources do not fix: it either
\* aborts the process or unwinds the thread, dropping tx. While the main
\* thread is unwinding, rx is gone: tx.send returns Err and its unwrap (line
\* 168) panics, so the message is not queued and the event thread unwinds.
IngestReceived(data) ==
    /\ ing_pc = "running"
    /\ ~Halted
    /\ nevents < MaxEvents
    /\ nevents' = nevents + 1
    /\ IF data = <<>>
       THEN UNCHANGED <<ing_pc, queue, pushed>>
       ELSE IF ~ValidUtf8(data)
       THEN ing_pc' \in DecodePanic /\ UNCHANGED <<queue, pushed>>
       ELSE IF main_pc = "unwinding"
       THEN ing_pc' = "unwound" /\ UNCHANGED <<queue, pushed>>
       ELSE /\ queue' = Append(queue, data)
            /\ pushed' = Append(pushed, data)
            /\ ing_pc' = ing_pc
    /\ UNCHANGED <<main_pc, popped, i, delay, raw, trace, client_users, temp>>

\* Lines 156 and 174-175: mqtt_conn.next() returns Err, the while-let loop
\* ends and the closure returns, dropping tx.
IngestStreamEnd ==
    /\ ing_pc = "running"
    /\ ~Halted
    /\ ing_pc' = "exited"
    /\ UNCHANGED <<main_pc, nevents, queue, pushed, popped,
                   i, delay, raw, trace, client_users, temp>>

\* ------------------------------------------------------------ command loop

\* Mutant of Pop: a message is taken from rx while a Measure is in flight.
Pop_Concurrent(x) ==
    /\ main_pc \in {"recv", "sleep", "read", "publish"}
    /\ ~Halted
    /\ queue # <<>>
    /\ x = Head(queue)
    /\ queue' = Tail(queue)
    /\ popped' = Append(popped, x)

\* Line 188: the next message is taken from rx.
Pop(x) ==
    /\ main_pc = "recv"
    /\ ~Halted
    /\ queue # <<>>
    /\ x = Head(queue)
    /\ queue' = Tail(queue)
    /\ popped' = Append(popped, x)

\* Mutant of DispatchMeasure: the counter runs from amount down to 0.
DispatchMeasure_FromAmount ==
    \E x \in Messages :
        /\ Pop(x)
        /\ ParseCommand(x).kind = "Measure"
        /\ LET c == ParseCommand(x)
           IN  main_pc' = "sleep" /\ i' = c.amount /\ delay' = c.delay
        /\ UNCHANGED <<ing_pc, nevents, pushed, raw, trace, client_users, temp>>

\* Lines 194-196 and 213-217: a well-formed measure command. The iteration
\* over (0..amount).rev() starts at amount-1, or is over at once for amount 0.
DispatchMeasure ==
    \E x \in Messages :
        /\ Pop(x)
        /\ ParseCommand(x).kind = "Measure"
        /\ LET c == ParseCommand(x)
           IN  IF c.amount > 0
               THEN main_pc' = "sleep" /\ i' = c.amount - 1 /\ delay' = c.delay
               ELSE UNCHANGED <<main_pc, i, delay>>
        /\ UNCHANGED <<ing_pc, nevents, pushed, raw, trace, client_users, temp>>

\* Mutant of DispatchRejected: the loop is left after the error is logged.
DispatchRejected_Break ==
    \E x \in Messages :
        /\ Pop(x)
        /\ ParseCommand(x).kind # "Measure"
        /\ LET c == ParseCommand(x)
           IN  trace' = Append(trace, Entry(c.kind, Len(popped) + 1, c.n, c.verb))
        /\ main_pc' = "returned"
        /\ UNCHANGED <<ing_pc, nevents, pushed, i, delay, raw,
                     client_users, temp>>

\* Lines 190-193, 197, 209-212, 213-216 and 234-250: every other message is
\* logged as an error and the loop goes on to the next one.
DispatchRejected ==
    \E x \in Messages :
        /\ Pop(x)
        /\ ParseCommand(x).kind # "Measure"
        /\ LET c == ParseCommand(x)
           IN  trace' = Append(trace, Entry(c.kind, Len(popped) + 1, c.n, c.verb))
        /\ UNCHANGED <<main_pc, ing_pc, nevents, pushed, i, delay, raw,
                     client_users, temp>>

\* Mutant of ChannelClosed: the loop ends as soon as tx is dropped, with
\* messages still queued.
ChannelClosed_NoDrain ==
    /\ main_pc = "recv"
    /\ ~Halted
    /\ TxDropped
    /\ main_pc' = "returned"
    /\ UNCHANGED <<ing_pc, nevents, queue, pushed, popped, i, delay, raw, trace,
                 client_users, temp>>

\* Lines 188 and 199-200: rx yields None once tx is dropped and the channel
\* is empty; the loop ends, handle_mqtt returns and main returns.
ChannelClosed ==
    /\ main_pc = "recv"
    /\ ~Halted
    /\ queue = <<>>
    /\ TxDropped
    /\ main_pc' = "returned"
    /\ UNCHANGED <<ing_pc, nevents, queue, pushed, popped,
                   i, delay, raw, trace, client_users, temp>>

\* ---------------------------------------------------------- handle_measure

\* Line 218: thread::sleep(delay).
Sleep ==
    /\ main_pc = "sleep"
    /\ ~Halted
    /\ main_pc' = "read"
    /\ trace' = Append(trace, Entry("sleep", Len(popped), delay, <<>>))
    /\ UNCHANGED <<ing_pc, nevents, queue, pushed, popped, i, delay, raw,
                 client_users, temp>>

\* Line 225: adc1.read(&mut pin34).unwrap() returns the reading r, which is
\* converted by calc_temp(r as f32) for the record; publish is called next.
AdcRead(r) ==
    /\ main_pc = "read"
    /\ ~Halted
    /\ raw' = r
    /\ temp' = calc_temp(F32(r))
    /\ trace' = Append(trace, Entry("read", Len(popped), r, <<>>))
    /\ main_pc' = "publish"
    /\ client_users' = {"main"}
    /\ UNCHANGED <<ing_pc, nevents, queue, pushed, popped, i, delay>>

\* A read returning one of the two calibration readings.
SensorRead == \E r \in RawReadings : AdcRead(r)

\* A read returning any reading of the ADC's range.
SensorReadAny == \E r \in AdcReadings : AdcRead(r)

\* Mutant of SensorFault: the fault aborts the Measure and the loop goes on.
SensorFault_Recover ==
    /\ main_pc = "read"
    /\ ~Halted
    /\ main_pc' = "recv"
    /\ i' = 0
    /\ delay' = 0
    /\ raw' = 0
    /\ UNCHANGED <<ing_pc, nevents, queue, pushed, popped, trace, client_users>>
    /\ temp' = F32Zero(1)

\* Line 225: adc1.read fails and the unwrap panics on the main thread.
SensorFault ==
    /\ main_pc = "read"
    /\ ~Halted
    /\ main_pc' \in MainPanic
    /\ UNCHANGED <<ing_pc, nevents, queue, pushed, popped,
                   i, delay, raw, trace, client_users, temp>>

\* Line 226: start_time.elapsed().unwrap() panics when the system clock has
\* been set back before start_time.
ElapsedFault ==
    /\ main_pc = "publish"
    /\ ~Halted
    /\ main_pc' \in MainPanic
    /\ UNCHANGED <<ing_pc, nevents, queue, pushed, popped,
                   i, delay, raw, trace, temp>>
    /\ client_users' = {}

\* Mutant of Publish: only the first iteration is preceded by the delay.
Publish_NoDelay ==
    /\ main_pc = "publish"
    /\ ~Halted
    /\ trace' = Append(trace, Entry("publish", Len(popped), i, <<>>))
    /\ IF i > 0
       THEN main_pc' = "read" /\ i' = i - 1 /\ UNCHANGED <<delay, raw, temp>>
       ELSE /\ main_pc' = "recv" /\ i' = 0 /\ delay' = 0 /\ raw' = 0
            /\ temp' = F32Zero(1)
    /\ UNCHANGED <<ing_pc, nevents, queue, pushed, popped>>
    /\ client_users' = {}

\* Lines 219-229: the record of this iteration is published; the range yields
\* its next value, or is exhausted after 0 and handle_measure returns.
Publish ==
    /\ main_pc = "publish"
    /\ ~Halted
    /\ trace' = Append(trace, Entry("publish", Len(popped), i, <<>>))
    /\ IF i > 0
       THEN main_pc' = "sleep" /\ i' = i - 1 /\ UNCHANGED <<delay, raw, temp>>
       ELSE /\ main_pc' = "recv" /\ i' = 0 /\ delay' = 0 /\ raw' = 0
            /\ temp' = F32Zero(1)
    /\ UNCHANGED <<ing_pc, nevents, queue, pushed, popped>>
    /\ client_users' = {}

\* Lines 219-228: publish(...).unwrap() panics on the main thread when the
\* send fails.
PublishFault ==
    /\ main_pc = "publish"
    /\ ~Halted
    /\ main_pc' \in MainPanic
    /\ UNCHANGED <<ing_pc, nevents, queue, pushed, popped,
                   i, delay, raw, trace, temp>>
    /\ client_users' = {}

\* The unwinding of the panicked main thread is over and the process exits,
\* ending the event thread with it.
ProcessExit ==
    /\ main_pc = "unwinding"
    /\ main_pc' = "panicked"
    /\ UNCHANGED <<ing_pc, nevents, queue, pushed, popped, i, delay, raw, trace,
                   client_users, temp>>

\* ------------------------------------------------------------ specification

Next ==
    \/ TakeResources
    \/ SetupAdc
    \/ SetupWifi
    \/ SetupMqtt
    \/ Spawn
    \/ Subscribe
    \/ \E kind \in LoggedOnlyKinds : IngestLogged(kind)
    \/ \E data \in Payloads : IngestReceived(data)
    \/ IngestStreamEnd
    \/ DispatchMeasure
    \/ DispatchRejected
    \/ ChannelClosed
    \/ Sleep
    \/ SensorRead
    \/ SensorFault
    \/ ElapsedFault
    \/ Publish
    \/ PublishFault
    \/ ProcessExit

Spec == Init /\ [][Next]_vars

\* The command loop applied to one string: no further data event arrives.
NextParse ==
    \/ \E kind \in LoggedOnlyKinds : IngestLogged(kind)
    \/ IngestStreamEnd
    \/ DispatchMeasure
    \/ DispatchRejected
    \/ ChannelClosed
    \/ Sleep
    \/ SensorRead
    \/ SensorFault
    \/ ElapsedFault
    \/ Publish
    \/ PublishFault
    \/ ProcessExit

\* Line 188: rx yields the next message to the command loop: the step that
\* DispatchMeasure and DispatchRejected both begin with, whatever the
\* message turns out to be.
Receive == queue # <<>> /\ Pop(Head(queue))

\* Line 225: adc1.read returns, whatever the reading is.
ReadReturns == main_pc = "read" /\ ~Halted /\ main_pc' = "publish"

\* Any other step of the main thread that is not a panic of the measurement
\* loop.
MainStep ==
    \/ TakeResources
    \/ SetupAdc
    \/ SetupWifi
    \/ SetupMqtt
    \/ Spawn
    \/ Subscribe
    \/ ChannelClosed
    \/ Sleep
    \/ Publish
    \/ ProcessExit

\* The main thread is an ordinary OS thread: while it has a step to take it
\* is eventually scheduled, and a sensor read that does not fail returns.
\* (The event thread may block on the event stream for ever, so nothing is
\* assumed of it.)
FairSpec ==
    /\ Spec
    /\ WF_vars(MainStep)
    /\ WF_<<queue, popped>>(Receive)
    /\ WF_main_pc(ReadReturns)

SpecParse == InitParse /\ [][NextParse]_vars

\* The last iteration of "measure:2,1" about to read the sensor, after a first
\* iteration that read one of the calibration readings.
InitTemp ==
    \E r \in RawReadings :
        /\ main_pc = "read"
        /\ ing_pc = "running"
        /\ nevents = 1
        /\ queue = <<>>
        /\ pushed = <<P_Measure2>>
        /\ popped = <<P_Measure2>>
        /\ i = 0
        /\ delay = 1
        /\ raw = r
        /\ trace = <<Entry("subscribe", 0, 0, <<>>), Entry("sleep", 1, 1, <<>>),
                     Entry("read", 1, r, <<>>), Entry("publish", 1, 1, <<>>),
                     Entry("sleep", 1, 1, <<>>)>>
        /\ temp = calc_temp(F32(r))
        /\ client_users = {}

\* The rest of that Measure with any reading of the ADC's range.
NextTemp ==
    \/ SensorReadAny
    \/ SensorFault
    \/ ElapsedFault
    \/ Publish
    \/ PublishFault
    \/ IngestStreamEnd
    \/ ChannelClosed
    \/ ProcessExit

SpecTemp == InitTemp /\ [][NextTemp]_vars

\* ------------------------------------------------------------ observations

\* The trace entries of the cmd-th popped message, in order.
EntriesOf(cmd) == SelectSeq(trace, LAMBDA e : e.cmd = cmd)

\* The remaining fields of the records published for the cmd-th popped
\* message, in publication order.
RemainingOf(cmd) ==
    LET pub == SelectSeq(trace, LAMBDA e : e.cmd = cmd /\ e.op = "publish")
    IN  [j \in 1..Len(pub) |-> pub[j].n]

\* amount-1, amount-2, ..., 0
Countdown(amount) == [j \in 1..amount |-> amount - j]

\* The cmd-th popped message has been handled to the end without a panic.
Completed(cmd) ==
    \/ cmd < Len(popped)
    \/ cmd = Len(popped) /\ main_pc \in {"recv", "returned"}

\* A Measure is being executed.
InFlight == main_pc \in {"sleep", "read", "publish"}

ErrorOps ==
    {"InvalidCommandString", "Unknown", "MissingArgs", "WrongArgCount", "NotANumber"}

\* ------------------------------------------------------------------ claims

\* C1: every dispatched Measure{amount, delay_ms} that meets no sensor or
\* publish failure publishes exactly amount records whose remaining fields
\* are amount-1, amount-2, ..., 0 in publication order; while it runs, the
\* records so far are a prefix of that countdown; amount = 0 publishes
\* nothing and logs no error.
C1_MeasureCountdown ==
    \A k \in 1..Len(popped) :
        LET c == ParseCommand(popped[k])
            r == RemainingOf(k)
        IN  c.kind = "Measure" =>
               /\ Len(r) <= c.amount
               /\ r = SubSeq(Countdown(c.amount), 1, Len(r))
               /\ (Completed(k) => r = Countdown(c.amount))
               /\ \A j \in 1..Len(trace) :
                      trace[j].cmd = k => trace[j].op \notin ErrorOps

\* C1 witness: a "measure:2,1" has run to the end with records 1, 0 and a
\* "measure:0,5" has run to the end with no record.
C1_Witness ==
    \E k1, k0 \in 1..Len(popped) :
        /\ popped[k1] = P_Measure2
        /\ Completed(k1)
        /\ RemainingOf(k1) = <<1, 0>>
        /\ popped[k0] = P_Measure0
        /\ Completed(k0)
        /\ EntriesOf(k0) = <<>>

\* C2: at most one Measure executes at a time. The effects in the trace are
\* grouped by command in arrival order (never interleaved), no effect of a
\* command that is still queued exists, and a later command is not even
\* popped before all amount records of an earlier Measure are published.
C2_OneMeasureAtATime ==
    /\ \A a \in 1..(Len(trace) - 1) : trace[a].cmd <= trace[a + 1].cmd
    /\ \A b \in 1..Len(trace) : trace[b].cmd <= Len(popped)
    /\ \A k \in 1..(Len(popped) - 1) :
          LET c == ParseCommand(popped[k])
          IN  c.kind = "Measure" => Len(RemainingOf(k)) = c.amount
    /\ (InFlight => ParseCommand(popped[Len(popped)]).kind = "Measure")

\* C2 witness: the first command is a Measure that has published one of its
\* two records and is still in flight while the second command waits in the
\* queue without any effect.
C2_Witness ==
    /\ InFlight
    /\ Len(popped) = 1
    /\ popped[1] = P_Measure2
    /\ RemainingOf(1) = <<1>>
    /\ queue = <<P_Measure2>>
    /\ EntriesOf(2) = <<>>

\* C3: the messages popped are a prefix of the messages pushed, and the
\* rest of the pushed messages is exactly the queue: none lost, duplicated
\* or reordered.
C3_FifoPrefix ==
    /\ Len(popped) <= Len(pushed)
    /\ popped = SubSeq(pushed, 1, Len(popped))
    /\ pushed = popped \o queue

\* C3 witness: two different messages have been popped in the order they
\* were pushed while a third one is still queued.
C3_Witness ==
    /\ Len(popped) = 2
    /\ popped[1] # popped[2]
    /\ Len(queue) = 1
    /\ queue[1] # popped[2]

\* C4: a message that yields a parse error or an unknown verb publishes
\* nothing (its only effect is its error log) and does not end the command
\* loop: right after it the main thread is back at the receive, and the loop
\* is left only on a closed and empty channel.
C4_RejectedContinues ==
    \A k \in 1..Len(popped) :
        ParseCommand(popped[k]).kind # "Measure" =>
           /\ \A j \in 1..Len(trace) :
                 trace[j].cmd = k => trace[j].op \in ErrorOps
           /\ (k = Len(popped) =>
                 /\ main_pc \in {"recv", "returned"}
                 /\ (main_pc = "returned" => TxDropped /\ queue = <<>>))

\* C4 witness: a rejected message was popped first and the Measure queued
\* behind it has been executed to the end.
C4_Witness ==
    /\ Len(popped) >= 2
    /\ ParseCommand(popped[1]).kind \in ErrorOps
    /\ popped[2] = P_Measure2
    /\ Completed(2)
    /\ RemainingOf(2) = <<1, 0>>

\* C5 (as claimed): a Received event with a non-empty payload that is not
\* valid UTF-8 is dropped without a push and the event thread keeps running.
C5_BadUtf8Dropped ==
    [][\A d \in Payloads :
          (d # <<>> /\ ~ValidUtf8(d) /\ IngestReceived(d))
             => (queue' = queue /\ pushed' = pushed /\ ing_pc' = "running")]_vars

\* C6 (as claimed): when publishing a record fails, the rest of the Measure
\* is abandoned (nothing more is published for it) and the command loop
\* continues at the receive.
C6_PublishFaultRecovers ==
    [][PublishFault => (trace' = trace /\ main_pc' = "recv")]_vars

\* A step of the main thread out of the sensor read that records no reading:
\* the read has failed.
ReadFailed ==
    /\ main_pc = "read"
    /\ main_pc' # "read"
    /\ ~(/\ Len(trace') = Len(trace) + 1
         /\ trace'[Len(trace')].op = "read")

\* C7: a sensor read fault halts the device. The failing iteration publishes
\* nothing and the main thread panics, and once it has panicked it stays so
\* and nothing is published, popped or pushed any more.
C7_SensorFaultHalts ==
    [][/\ ReadFailed => (MainPanicked' /\ trace' = trace /\ popped' = popped)
       /\ MainPanicked =>
             (MainPanicked' /\ UNCHANGED <<trace, popped, queue, pushed>>)]_vars

\* C7 witness: the main thread has panicked in the second iteration of a
\* Measure, right after the delay, with one record published and another
\* command still queued.
C7_Witness ==
    /\ main_pc = "panicked"
    /\ trace # <<>>
    /\ trace[Len(trace)].op = "sleep"
    /\ RemainingOf(Len(popped)) = <<1>>
    /\ queue # <<>>

\* C8 (as claimed): the end of the event thread's loop does not make the
\* command loop exit or main return.
C8_LoopSurvivesStreamEnd ==
    ing_pc = "exited" => main_pc # "returned"

\* C8 (amended): when the event stream ends, the event thread ends and drops
\* the sender. The command loop goes on while a Measure is in flight or
\* messages are queued; once the queue is empty it sees the closed channel,
\* the loop exits and main returns, with every pushed message popped.
C8_StreamEndClosesChannel ==
    ing_pc = "exited" =>
       /\ (main_pc = "returned" => queue = <<>> /\ popped = pushed)
       /\ (main_pc = "recv" => (ENABLED ChannelClosed <=> queue = <<>>))
       /\ (InFlight => ~ENABLED ChannelClosed)

\* C8 witness: the stream has ended, a queued Measure was still executed to
\* the end, and main has returned.
C8_Witness ==
    /\ ing_pc = "exited"
    /\ main_pc = "returned"
    /\ popped = <<P_Measure2>>
    /\ RemainingOf(1) = <<1, 0>>

HasColon(x) == \E k \in 1..Len(x) : x[k] = COLON

\* The positions of the colons of x, and a position past its end.
Stops(x) == {k \in 1..Len(x) : x[k] = COLON} \cup {Len(x) + 1}

FirstStop(S) == CHOOSE k \in S : \A j \in S : k <= j

\* The text of x before its first colon.
VerbOf(x) == SubSeq(x, 1, FirstStop(Stops(x)) - 1)

\* The text of x between its first and its second colon.
ArgsOf(x) ==
    LET c1 == FirstStop(Stops(x))
    IN  SubSeq(x, c1 + 1, FirstStop({k \in Stops(x) : k > c1}) - 1)

NumFields(a) == 1 + Cardinality({k \in 1..Len(a) : a[k] = COMMA})

\* C9: a message whose verb is not "measure" is classified as Unknown with
\* the text before the first colon as its verb, and its only effect is that
\* error log: no delay, no sensor read, no record.
C9_UnknownVerbNoAction ==
    \A k \in 1..Len(popped) :
        VerbOf(popped[k]) # MEASURE =>
           /\ ParseCommand(popped[k]).kind = "Unknown"
           /\ EntriesOf(k) = <<Entry("Unknown", k, 0, VerbOf(popped[k]))>>

\* C9 witness: "foo:bar" has been popped and logged as unknown verb "foo".
C9_Witness ==
    \E k \in 1..Len(popped) :
        /\ popped[k] = P_FooBar
        /\ EntriesOf(k) = <<Entry("Unknown", k, 0, <<102, 111, 111>>)>>

\* C10: "measure" without an args segment is logged as MissingArgs, and one
\* whose args segment has N # 2 comma-separated fields as WrongArgCount with
\* that N; that log is the only effect (no delay, no read, no record) and
\* the main thread does not panic.
C10_MissingOrWrongArgs ==
    \A k \in 1..Len(popped) :
        LET x == popped[k]
        IN  VerbOf(x) = MEASURE =>
               /\ ~HasColon(x) =>
                     EntriesOf(k) = <<Entry("MissingArgs", k, 0, MEASURE)>>
               /\ (HasColon(x) /\ NumFields(ArgsOf(x)) # 2) =>
                     EntriesOf(k) =
                        <<Entry("WrongArgCount", k, NumFields(ArgsOf(x)), MEASURE)>>
               /\ (~HasColon(x) \/ NumFields(ArgsOf(x)) # 2) /\ k = Len(popped)
                     => main_pc \in {"recv", "returned"}

\* C10 witness: "measure", "measure:5" and "measure:1,2,3" have been popped
\* and logged as MissingArgs, WrongArgCount 1 and WrongArgCount 3.
C10_Witness ==
    \E k0, k1, k3 \in 1..Len(popped) :
        /\ popped[k0] = P_NoArgs
        /\ EntriesOf(k0) = <<Entry("MissingArgs", k0, 0, MEASURE)>>
        /\ popped[k1] = P_OneArg
        /\ EntriesOf(k1) = <<Entry("WrongArgCount", k1, 1, MEASURE)>>
        /\ popped[k3] = P_ThreeArgs
        /\ EntriesOf(k3) = <<Entry("WrongArgCount", k3, 3, MEASURE)>>

\* C13: a network or broker setup failure is reported and main returns at
\* once: the event thread is never started, the command topic is never
\* subscribed, and nothing is ever pushed, popped or published. As long as
\* the event thread has not been started, nothing but setup has happened.
C13_SetupFailureExits ==
    /\ \A j \in 1..Len(trace) :
          (trace[j].op = "SetupError" /\ trace[j].n \in {2, 3}) =>
             /\ trace = <<Entry("SetupError", 0, trace[j].n, <<>>)>>
             /\ main_pc = "returned"
             /\ ing_pc = "unspawned"
             /\ pushed = <<>> /\ popped = <<>> /\ queue = <<>>
    /\ ing_pc = "unspawned" =>
          /\ pushed = <<>> /\ popped = <<>> /\ queue = <<>>
          /\ \A j \in 1..Len(trace) : trace[j].op = "SetupError"

\* C13 witness: the broker setup has failed after the network came up, and
\* main has returned.
C13_Witness ==
    /\ trace = <<Entry("SetupError", 0, 3, <<>>)>>
    /\ main_pc = "returned"

\* The operation at position j of a Measure's entries: delay, read, publish,
\* delay, read, publish, ...
StepOp(j) == <<"sleep", "read", "publish">>[((j - 1) % 3) + 1]

\* C16: the effects of every Measure are, iteration after iteration, one
\* delay of delay_ms, then one sensor read, then the publish of that
\* iteration's record; so the delay precedes the first sample, a record is
\* published before the next delay, and every read is followed by its
\* publish attempt. The main thread's position follows the same cycle.
C16_DelayReadPublish ==
    \A k \in 1..Len(popped) :
        LET c == ParseCommand(popped[k])
            e == EntriesOf(k)
        IN  c.kind = "Measure" =>
               /\ \A j \in 1..Len(e) :
                     /\ e[j].op = StepOp(j)
                     /\ (e[j].op = "sleep" => e[j].n = c.delay)
                     /\ (e[j].op = "publish" => e[j].n = c.amount - (j \div 3))
               /\ (k = Len(popped) /\ InFlight => main_pc = StepOp(Len(e) + 1))
               /\ (Completed(k) => Len(e) = 3 * c.amount)

\* C16 witness: "measure:2,1" has run to the end as delay 1, read, publish 1,
\* delay 1, read, publish 0.
C16_Witness ==
    /\ popped = <<P_Measure2>>
    /\ Completed(1)
    /\ [j \in 1..Len(trace) |-> <<trace[j].op, trace[j].cmd>>] =
          << <<"subscribe", 0>>, <<"sleep", 1>>, <<"read", 1>>, <<"publish", 1>>,
             <<"sleep", 1>>, <<"read", 1>>, <<"publish", 1>> >>
    /\ trace[2].n = 1 /\ trace[4].n = 1 /\ trace[5].n = 1 /\ trace[7].n = 0

\* The cmd-th popped message has been handled: a Measure has published its
\* whole countdown, any other message has its error log.
Handled(cmd) ==
    LET c == ParseCommand(popped[cmd])
    IN  IF c.kind = "Measure"
        THEN RemainingOf(cmd) = Countdown(c.amount)
        ELSE EntriesOf(cmd) = <<Entry(c.kind, cmd, c.n, c.verb)>>

\* C18: after the event thread has ended with the stream, the messages it
\* had pushed are still popped in order; the command loop is left on the
\* closed channel only when every pushed message has been popped and
\* handled, none discarded.
C18_QueuedHandledAfterStreamEnd ==
    ing_pc = "exited" =>
       /\ pushed = popped \o queue
       /\ (main_pc = "returned" =>
             /\ popped = pushed
             /\ \A k \in 1..Len(popped) : Handled(k))

\* C18 witness: the stream has ended, and the rejected message and the
\* Measure pushed before have both been handled before main returned.
C18_Witness ==
    /\ ing_pc = "exited"
    /\ main_pc = "returned"
    /\ pushed = <<P_FooBar, P_Measure2>>
    /\ popped = pushed
    /\ Handled(1) /\ Handled(2)

\* C15: the event thread changes the queue only on a Received event with a
\* non-empty payload, and then by appending exactly one message, equal to
\* the payload; Connected, Subscribed, Published, any other kind, and a
\* Received event with an empty payload leave the queue as it is. Every
\* other change of the queue is a pop by the command loop. A well-formed
\* non-empty payload is appended whenever the receiving end still exists,
\* that is, unless the main thread has panicked and is unwinding.
C15_OnlyReceivedPushes ==
    [][ /\ (\E kind \in LoggedOnlyKinds : IngestLogged(kind)) =>
              (queue' = queue /\ pushed' = pushed)
        /\ \A data \in Payloads :
              IngestReceived(data) =>
                 IF data # <<>> /\ ValidUtf8(data) /\ main_pc # "unwinding"
                 THEN queue' = Append(queue, data) /\ pushed' = Append(pushed, data)
                 ELSE queue' = queue /\ pushed' = pushed
        /\ (nevents' = nevents /\ queue' # queue) =>
              (queue # <<>> /\ queue' = Tail(queue) /\ pushed' = pushed)
        /\ (nevents' # nevents /\ queue' # queue) =>
              /\ nevents' = nevents + 1
              /\ \E data \in Payloads :
                    /\ data # <<>> /\ ValidUtf8(data)
                    /\ queue' = Append(queue, data)
      ]_vars

\* C15 witness: of three events handled, only the one data event with a
\* non-empty payload has put a message in the queue.
C15_Witness ==
    /\ nevents = 3
    /\ ing_pc = "running"
    /\ pushed = <<P_Measure2>>
    /\ queue = <<P_Measure2>>

\* The two comma-separated fields of a two-field argument text.
FieldsOf(a) ==
    LET c == CHOOSE k \in 1..Len(a) : a[k] = COMMA
    IN  <<SubSeq(a, 1, c - 1), SubSeq(a, c + 1, Len(a))>>

\* x is a measure command with exactly two argument fields.
TwoFieldMeasure(x) ==
    /\ HasColon(x)
    /\ VerbOf(x) = MEASURE
    /\ NumFields(ArgsOf(x)) = 2

\* C11: a measure command with two fields of which one is not a number is
\* rejected as NotANumber naming the failing field, the amount (field 1)
\* being checked before the delay (field 2); the error log is its only
\* effect: no delay, no sensor read, no record.
C11_NotANumberNamesField ==
    \A k \in 1..Len(popped) :
        TwoFieldMeasure(popped[k]) =>
            LET f == FieldsOf(ArgsOf(popped[k]))
            IN  /\ ~ParseU64Ok(f[1]) =>
                      EntriesOf(k) = <<Entry("NotANumber", k, 1, MEASURE)>>
                /\ (ParseU64Ok(f[1]) /\ ~ParseU64Ok(f[2])) =>
                      EntriesOf(k) = <<Entry("NotANumber", k, 2, MEASURE)>>

\* C11 witness: "measure:abc,x", ill-formed in both fields, has been rejected
\* for its first field and the main thread is back at the receive.
C11_Witness ==
    /\ popped = <<P_BadBoth>>
    /\ EntriesOf(1) = <<Entry("NotANumber", 1, 1, MEASURE)>>
    /\ main_pc = "recv"

\* Line 165: the event thread never sends an empty message, so none is ever
\* queued or popped and the command loop never classifies the empty string
\* (the case C12 is about does not arise in any behaviour).
EmptyNeverReachesLoop ==
    \A k \in 1..Len(pushed) : pushed[k] # <<>>

\* The text of x up to its second colon.
FirstTwo(x) ==
    IF HasColon(x) THEN VerbOf(x) \o <<COLON>> \o ArgsOf(x) ELSE x

\* C19: only the first two colon-separated segments of a message are used.
\* A message is classified like its text up to the second colon, and what
\* the main thread does for it is what that shorter text asks for: the error
\* log of a rejected message, or the delays, reads and countdown of a Measure.
C19_TrailingSegmentsIgnored ==
    /\ \A x \in Messages : ParseCommand(x) = ParseCommand(FirstTwo(x))
    /\ \A k \in 1..Len(popped) :
          LET c == ParseCommand(FirstTwo(popped[k]))
              e == EntriesOf(k)
          IN  IF c.kind = "Measure"
              THEN /\ \A j \in 1..Len(e) :
                         /\ e[j].op = StepOp(j)
                         /\ (e[j].op = "sleep" => e[j].n = c.delay)
                         /\ (e[j].op = "publish" => e[j].n = c.amount - (j \div 3))
                   /\ (Completed(k) => RemainingOf(k) = Countdown(c.amount))
              ELSE e = <<Entry(c.kind, k, c.n, c.verb)>>

\* C19 witness: "measure:2,0:junk" has been executed to the end like
\* "measure:2,0": two records, 1 and 0, after delays of 0 ms.
C19_Witness ==
    /\ popped = <<P_Trailing>>
    /\ Completed(1)
    /\ RemainingOf(1) = <<1, 0>>
    /\ \A j \in 1..Len(trace) : trace[j].op = "sleep" => trace[j].n = 0

\* C14: the uses of the client handle are serialized. At most one thread
\* is inside a subscribe or publish at any time, it is the main thread
\* during its subscribe and publish steps, and the event thread is never
\* inside an operation on the handle.
C14_ClientUseSerialized ==
    /\ Cardinality(client_users) <= 1
    /\ "ing" \notin client_users
    /\ (client_users = {"main"} <=> main_pc \in {"subscribe", "publish"})

\* C14 witness: the main thread is publishing a record while the event
\* thread is running and has events left to handle.
C14_Witness ==
    /\ client_users = {"main"}
    /\ main_pc = "publish"
    /\ ing_pc = "running"
    /\ nevents > 0 /\ nevents < MaxEvents

\* The distance of x from the affine map through (2100, 0) and (1558, 50)
\* at the reading v, in units of 1/271 of a hundredth of a degree:
\* (2100 - v) * 50 / 542 degrees is (2100 - v) * 2500 / 271 hundredths.
AffineError(v, x) ==
    LET d == Hundredths(x) * 271 - (2100 - v) * 2500
    IN  IF d < 0 THEN -d ELSE d

\* C20: calc_temp is the affine map through the two calibration points. It
\* maps the reading 2100 to 0 and the reading 1558 to 50 exactly; the
\* converted value of every reading is within a hundredth of a degree of
\* that line; a larger reading gives a strictly smaller value (each reading
\* against the one below it); and outside the calibrated range the value is
\* not clamped: it is below 0 above 2100 and above 50 below 1558.
C20_CalcTempAffine ==
    /\ calc_temp(V_1) = T_1
    /\ calc_temp(V_2) = T_2
    /\ main_pc = "publish" =>
          /\ temp = calc_temp(F32(raw))
          /\ AffineError(raw, temp) <= 271
          /\ (raw > 0 => F32Less(temp, calc_temp(F32(raw - 1))))
          /\ (raw > 2100 => F32Less(temp, T_1))
          /\ (raw < 1558 => F32Less(T_2, temp))
          /\ (raw > 1558 /\ raw < 2100 => F32Less(T_1, temp) /\ F32Less(temp, T_2))

\* C20 witness: the reading 0, far below the calibrated range, has been
\* converted to 193.73 degrees for the record about to be published.
C20_Witness ==
    /\ main_pc = "publish"
    /\ raw = 0
    /\ temp = calc_temp(F32(0))
    /\ Hundredths(temp) = 19373

\* C17 (as claimed): under fair scheduling, and if the main thread never
\* panics (no sensor, publish or other failure on it), a Measure in flight
\* runs to its end, and every message pushed onto the queue is eventually
\* popped and handled to the end.
C17_EveryPushedHandled ==
    [](~MainPanicked) =>
        /\ InFlight ~> (main_pc \in {"recv", "returned"})
        /\ \A n \in 1..MaxEvents :
              (Len(pushed) >= n) ~> (Len(popped) >= n /\ Completed(n))

====
